---- MODULE Spec2Model ----
(***************************************************************************)
(* Model of src/src/hgserve.ts: HgCommandServer, a client of the Mercurial *)
(* command server (hg serve --cmdserver pipe).  The state is the fields of *)
(* the HgCommandServer object, the child processes it has spawned (their   *)
(* listeners, their stdin, the frames they have put on their stdout pipe)  *)
(* and the deferred results handed to the callers of runcommand.           *)
(***************************************************************************)
EXTENDS Integers, Sequences, FiniteSets, TLC

\* Bounds of the model.
MaxProcs == 3      \* child processes spawned over the life of one server object
MaxCmds == 2       \* commands accepted by enqueueCommand

Procs == 1..MaxProcs
Cmds == 1..MaxCmds
ExitCodes == {0, 1}   \* exit codes the command server answers with

\* The first burst a spawned process may put on its stdout.
HelloOk == [chan |-> "o", parses |-> TRUE, caps |-> {"getencoding", "runcommand"}]
HelloNoRun == [chan |-> "o", parses |-> TRUE, caps |-> {"getencoding"}]
HelloBad == [chan |-> "o", parses |-> FALSE, caps |-> {}]
HelloResult == [chan |-> "r", parses |-> FALSE, caps |-> {}]
Hellos == {HelloOk, HelloNoRun, HelloBad, HelloResult}

VARIABLES
    serverProcess,       \* this.serverProcess: 0 is undefined, else a process
    starting,            \* this.starting
    capabilities,        \* this.capabilities (with this.encoding), {} before any handshake
    commandQueue,        \* this.commandQueue: the commands, oldest first
    stopWhenQueueEmpty,  \* this.stopWhenQueueEmpty (undefined is FALSE)
    spawned,             \* number of processes spawned so far
    alive,               \* alive[p]: the process has not exited
    exitListeners,       \* exitListeners[p]: "exit" listeners on the process
    onceData,            \* onceData[p]: stdout.once("data") of the handshake is armed
    stdoutData,          \* stdoutData[p]: attachListeners' stdout "data" listener is on
    stderrData,          \* stderrData[p]: the stderr "data" listeners on the process
    stdinOpen,           \* stdinOpen[p]: stdin.end() has not been called
    stdin,               \* stdin[p]: the command frames written to the process
    greeted,             \* greeted[p]: the process has emitted its hello
    answered,            \* answered[p]: how many written commands it has answered
    out,                 \* out[p]: frames on the stdout pipe, not yet delivered
    startPromise,        \* startPromise[p]: the promise of spawnCommandServerProcess
    result,              \* result[c]: the Deferred of command c
    enqueued,            \* number of commands accepted so far
    resolved,            \* the commands in the order their promises were resolved
    stopCalled,          \* the embedding application has called stop()
    forcedStop,          \* stop(true) has been called on the handle start() returned
    lastOp,              \* the step that led to this state
    sent,                \* the frames the child of the byte-level runs writes
    wire,                \* their bytes on the stdout pipe, not yet delivered
    aligned,             \* every arrival so far ended on a frame boundary
    arrivals,            \* the number of arrivals of bytes so far
    outputBodies,        \* outputBodies[p]: closure variable of attachListeners
    errorBodies,         \* errorBodies[p]: closure variable of attachListeners
    suspended,           \* stdout listeners waiting in await handleChoices(...)
    delivered,           \* the IExecutionResults passed to resolve, in order
    lineWrites           \* the serverSendLineInput calls, in order

demuxVars == <<sent, wire, aligned, arrivals, outputBodies, errorBodies, suspended,
               delivered, lineWrites>>

vars == <<serverProcess, starting, capabilities, commandQueue, stopWhenQueueEmpty,
          spawned, alive, exitListeners, onceData, stdoutData, stderrData,
          stdinOpen, stdin, greeted, answered, out, startPromise, result,
          enqueued, resolved, stopCalled, forcedStop, lastOp, demuxVars>>

Pending == [st |-> "pending", exitCode |-> 0, src |-> 0]
NoResult == [st |-> "none", exitCode |-> 0, src |-> 0]

\* lastOp names the step taken: the handler, the process it ran for and its
\* outcome; rep is set on a stop(force) that directly follows a stop(force) with
\* the same force.
Op(name, proc, arg) == [op |-> name, proc |-> proc, arg |-> arg, rep |-> FALSE]

\* The constructor: no process, an empty queue, starting = false.
Init ==
    /\ serverProcess = 0
    /\ starting = FALSE
    /\ capabilities = {}
    /\ commandQueue = <<>>
    /\ stopWhenQueueEmpty = FALSE
    /\ spawned = 0
    /\ alive = [p \in Procs |-> FALSE]
    /\ exitListeners = [p \in Procs |-> {}]
    /\ onceData = [p \in Procs |-> FALSE]
    /\ stdoutData = [p \in Procs |-> FALSE]
    /\ stderrData = [p \in Procs |-> {}]
    /\ stdinOpen = [p \in Procs |-> FALSE]
    /\ stdin = [p \in Procs |-> <<>>]
    /\ greeted = [p \in Procs |-> FALSE]
    /\ answered = [p \in Procs |-> 0]
    /\ out = [p \in Procs |-> <<>>]
    /\ startPromise = [p \in Procs |-> "none"]
    /\ result = [c \in Cmds |-> NoResult]
    /\ enqueued = 0
    /\ resolved = <<>>
    /\ stopCalled = FALSE
    /\ forcedStop = FALSE
    /\ lastOp = Op("new", 0, 0)
    /\ sent = <<>>
    /\ wire = <<>>
    /\ aligned = TRUE
    /\ arrivals = 0
    /\ outputBodies = [p \in Procs |-> <<>>]
    /\ errorBodies = [p \in Procs |-> <<>>]
    /\ suspended = <<>>
    /\ delivered = <<>>
    /\ lineWrites = <<>>


\* The part of the state the handlers read and write, as one value, so that a
\* handler that calls another (the exit handler calls stop, then start) is the
\* composition of the two.
Cur ==
    [serverProcess |-> serverProcess, starting |-> starting,
     commandQueue |-> commandQueue, stopWhenQueueEmpty |-> stopWhenQueueEmpty,
     spawned |-> spawned, alive |-> alive, exitListeners |-> exitListeners,
     onceData |-> onceData, stdoutData |-> stdoutData, stderrData |-> stderrData,
     stdinOpen |-> stdinOpen, startPromise |-> startPromise,
     result |-> result, resolved |-> resolved,
     outputBodies |-> outputBodies, errorBodies |-> errorBodies,
     suspended |-> suspended, delivered |-> delivered, lineWrites |-> lineWrites]

Commit(s) ==
    /\ serverProcess' = s.serverProcess
    /\ starting' = s.starting
    /\ commandQueue' = s.commandQueue
    /\ stopWhenQueueEmpty' = s.stopWhenQueueEmpty
    /\ spawned' = s.spawned
    /\ alive' = s.alive
    /\ exitListeners' = s.exitListeners
    /\ onceData' = s.onceData
    /\ stdoutData' = s.stdoutData
    /\ stderrData' = s.stderrData
    /\ stdinOpen' = s.stdinOpen
    /\ startPromise' = s.startPromise
    /\ result' = s.result
    /\ resolved' = s.resolved
    /\ outputBodies' = s.outputBodies
    /\ errorBodies' = s.errorBodies
    /\ suspended' = s.suspended
    /\ delivered' = s.delivered
    /\ lineWrites' = s.lineWrites

\* stop without the deferral: the process is torn down whatever is queued.
stop_IgnoresQueue(force, s) ==
    IF s.serverProcess = 0 THEN s
    ELSE LET p == s.serverProcess IN
         [s EXCEPT !.exitListeners[p] = {},
                   !.onceData[p] = FALSE,
                   !.stdoutData[p] = FALSE,
                   !.stderrData[p] = {},
                   !.stdinOpen[p] = FALSE,
                   !.serverProcess = 0]

\* stop that defers only once: a second request with the flag set tears down.
stop_SecondCallForces(force, s) ==
    IF s.serverProcess = 0 THEN s
    ELSE IF Len(s.commandQueue) # 0 /\ ~force /\ ~s.stopWhenQueueEmpty
         THEN [s EXCEPT !.stopWhenQueueEmpty = TRUE]
         ELSE LET p == s.serverProcess IN
              [s EXCEPT !.exitListeners[p] = {},
                        !.onceData[p] = FALSE,
                        !.stdoutData[p] = FALSE,
                        !.stderrData[p] = {},
                        !.stdinOpen[p] = FALSE,
                        !.serverProcess = 0]

\* HgCommandServer.stop(force): nothing without a process; with commands queued
\* and no force only the flag is set; otherwise the listeners are removed, stdin
\* is ended and the handle is dropped.  The queue is not touched.
stop(force, s) ==
    IF s.serverProcess = 0 THEN s
    ELSE IF Len(s.commandQueue) # 0 /\ ~force
         THEN [s EXCEPT !.stopWhenQueueEmpty = TRUE]
         ELSE LET p == s.serverProcess IN
              [s EXCEPT !.exitListeners[p] = {},
                        !.onceData[p] = FALSE,
                        !.stdoutData[p] = FALSE,
                        !.stderrData[p] = {},
                        !.stdinOpen[p] = FALSE,
                        !.serverProcess = 0]

\* A spawn that stores the handle at once instead of after the handshake.
spawnCommandServerProcess_EagerHandle(s) ==
    LET q == s.spawned + 1 IN
    [s EXCEPT !.starting = TRUE,
              !.spawned = q,
              !.alive[q] = TRUE,
              !.onceData[q] = TRUE,
              !.stderrData[q] = {"spawn"},
              !.exitListeners[q] = {"spawn"},
              !.stdinOpen[q] = TRUE,
              !.startPromise[q] = "pending",
              !.serverProcess = q]

\* spawnCommandServerProcess up to the point where its promise is returned:
\* a new child with the handshake listener, the stderr listener and the exit
\* listener that removes the exit listeners.
spawnCommandServerProcess(s) ==
    LET q == s.spawned + 1 IN
    [s EXCEPT !.starting = TRUE,
              !.spawned = q,
              !.alive[q] = TRUE,
              !.onceData[q] = TRUE,
              !.stderrData[q] = {"spawn"},
              !.exitListeners[q] = {"spawn"},
              !.stdinOpen[q] = TRUE,
              !.startPromise[q] = "pending"]

\* start(hgPath) up to its await.
start(s) == spawnCommandServerProcess(s)

\* attachListeners: the exit listener that restarts, the stderr listener that
\* collects, the stdout listener that decodes frames.
attachListeners(s) ==
    IF s.serverProcess = 0 THEN s
    ELSE LET p == s.serverProcess IN
         [s EXCEPT !.outputBodies[p] = <<>>,
                   !.errorBodies[p] = <<>>,
                   !.exitListeners[p] = @ \cup {"attach"},
                   !.stderrData[p] = @ \cup {"attach"},
                   !.stdoutData[p] = TRUE]

\* start(hgPath) after its await, with the process the promise resolved to.
startResume(s, p) == attachListeners([s EXCEPT !.serverProcess = p])

\* dequeueCommand: commandQueue.shift().
dequeueCommand(s) ==
    IF s.commandQueue = <<>> THEN s
    ELSE [s EXCEPT !.commandQueue = Tail(@)]

\* One turn of the while loop of the stdout listener on frame f: a result frame
\* sets exitCode, the head of the queue (when there is one) is resolved with it,
\* and with the flag set and the queue empty stop() is called and the listener
\* returns.  The value is the state and whether the listener returned.
handleFrame(s, f) ==
    IF f.chan = "r"
    THEN LET exitCode == f.body
             q == s.commandQueue
             s1 == dequeueCommand(s)
             s2 == IF q = <<>> THEN s1
                   ELSE [s1 EXCEPT !.result[Head(q)] =
                                       [st |-> "resolved", exitCode |-> exitCode,
                                        src |-> f.cmd],
                                   !.resolved = Append(@, Head(q))]
         IN IF s2.stopWhenQueueEmpty /\ Len(s2.commandQueue) = 0
            THEN [s |-> stop(FALSE, s2), returned |-> TRUE]
            ELSE [s |-> s2, returned |-> FALSE]
    ELSE [s |-> s, returned |-> FALSE]

\* The stdout listener on one arrival: the frames of the buffer in order.
RECURSIVE stdoutListener(_, _)
stdoutListener(frames, s) ==
    IF frames = <<>> THEN s
    ELSE LET r == handleFrame(s, Head(frames)) IN
         IF r.returned THEN r.s ELSE stdoutListener(Tail(frames), r.s)

\* A handshake that does not look for "runcommand".
hasRuncommand_Always(caps) == TRUE

\* capabilities.includes("runcommand") of the handshake.
hasRuncommand(caps) == "runcommand" \in caps

----------------------------------------------------------------------------
\* HgCommandServer.start(hgPath, repository, logger): construct and start.
Start ==
    /\ spawned = 0
    /\ Commit(start(Cur))
    /\ lastOp' = Op("start", 1, 0)
    /\ UNCHANGED <<capabilities, stdin, greeted, answered, out, enqueued, stopCalled, forcedStop, sent, wire, aligned, arrivals>>

\* The child writes its hello, the first burst on its stdout.
ServerHello(p, h) ==
    /\ p <= spawned /\ alive[p] /\ ~greeted[p]
    /\ greeted' = [greeted EXCEPT ![p] = TRUE]
    /\ out' = [out EXCEPT ![p] = Append(@, h)]
    /\ lastOp' = Op("hello", p, 0)
    /\ UNCHANGED <<serverProcess, starting, capabilities, commandQueue,
                   stopWhenQueueEmpty, spawned, alive, exitListeners, onceData,
                   stdoutData, stderrData, stdinOpen, stdin, answered,
                   startPromise, result, enqueued, resolved, stopCalled, forcedStop, demuxVars>>

\* stdout.once("data") of spawnCommandServerProcess on an arrival of the first k
\* frames of the pipe, and, when the promise resolves, the rest of start.
FirstData(p, k) ==
    /\ p <= spawned /\ onceData[p] /\ k \in 1..Len(out[p])
    /\ LET f == out[p][1]
           canSettle == startPromise[p] = "pending"
           s0 == [Cur EXCEPT !.onceData[p] = FALSE, !.starting = FALSE]
       IN /\ out' = [out EXCEPT ![p] = SubSeq(@, k + 1, Len(@))]
          /\ IF f.chan = "r" \/ ~f.parses
             THEN \* parseCapabilitiesAndEncoding throws inside the listener
                  /\ Commit(s0)
                  /\ capabilities' = capabilities
                  /\ lastOp' = Op("firstdata", p, 0)
             ELSE /\ capabilities' = f.caps
                  /\ IF ~hasRuncommand(f.caps)
                     THEN /\ Commit([s0 EXCEPT !.startPromise[p] =
                                        IF canSettle THEN "rejected" ELSE @])
                          /\ lastOp' = Op("firstdata", p, 1)
                     ELSE IF canSettle
                          THEN /\ Commit(startResume(
                                      [s0 EXCEPT !.startPromise[p] = "resolved"], p))
                               /\ lastOp' = Op("firstdata", p, 2)
                          ELSE /\ Commit(s0)
                               /\ lastOp' = Op("firstdata", p, 3)
    /\ UNCHANGED <<stdin, greeted, answered, enqueued, stopCalled, forcedStop, sent, wire, aligned, arrivals>>

\* The stderr listener of spawnCommandServerProcess: while this.starting, data
\* on stderr rejects the promise of the spawn.
StderrData(p) ==
    /\ p <= spawned /\ "spawn" \in stderrData[p]
    /\ starting /\ startPromise[p] = "pending"
    /\ startPromise' = [startPromise EXCEPT ![p] = "rejected"]
    /\ lastOp' = Op("stderr", p, 0)
    /\ UNCHANGED <<serverProcess, starting, capabilities, commandQueue,
                   stopWhenQueueEmpty, spawned, alive, exitListeners, onceData,
                   stdoutData, stderrData, stdinOpen, stdin, greeted, answered,
                   out, result, enqueued, resolved, stopCalled, forcedStop, demuxVars>>

\* enqueueCommand without the test of this.serverProcess.
enqueueCommand_NoGuard ==
    /\ enqueued < MaxCmds
    /\ LET c == enqueued + 1 IN
       /\ commandQueue' = Append(commandQueue, c)
       /\ stdin' = [stdin EXCEPT ![serverProcess] = Append(@, c)]
       /\ result' = [result EXCEPT ![c] = Pending]
       /\ enqueued' = c
       /\ lastOp' = Op("enqueue", serverProcess, c)

\* runcommand(...args) = enqueueCommand("runcommand", ...args).
enqueueCommand ==
    IF serverProcess # 0
    THEN /\ enqueued < MaxCmds
         /\ LET c == enqueued + 1 IN
            /\ commandQueue' = Append(commandQueue, c)
            /\ stdin' = [stdin EXCEPT ![serverProcess] = Append(@, c)]
            /\ result' = [result EXCEPT ![c] = Pending]
            /\ enqueued' = c
            /\ lastOp' = Op("enqueue", serverProcess, c)
    ELSE /\ lastOp' = Op("enqueue", 0, 0)
         /\ UNCHANGED <<commandQueue, stdin, result, enqueued>>

Enqueue ==
    /\ enqueueCommand
    /\ UNCHANGED <<serverProcess, starting, capabilities, stopWhenQueueEmpty,
                   spawned, alive, exitListeners, onceData, stdoutData,
                   stderrData, stdinOpen, greeted, answered, out, startPromise,
                   resolved, stopCalled, forcedStop, demuxVars>>

\* The command server answers the oldest command it has read and not answered
\* with a result frame; cmd records which command the frame is for.
ServerAnswer(p, code) ==
    /\ p <= spawned /\ alive[p] /\ greeted[p] /\ answered[p] < Len(stdin[p])
    /\ answered' = [answered EXCEPT ![p] = @ + 1]
    /\ out' = [out EXCEPT ![p] =
                  Append(@, [chan |-> "r", body |-> code,
                             cmd |-> stdin[p][answered[p] + 1]])]
    /\ lastOp' = Op("answer", p, stdin[p][answered[p] + 1])
    /\ UNCHANGED <<serverProcess, starting, capabilities, commandQueue,
                   stopWhenQueueEmpty, spawned, alive, exitListeners, onceData,
                   stdoutData, stderrData, stdinOpen, stdin, greeted,
                   startPromise, result, enqueued, resolved, stopCalled, forcedStop, demuxVars>>

\* The stdout listener of attachListeners on an arrival of the first k frames.
StdoutData(p, k) ==
    /\ p <= spawned /\ stdoutData[p] /\ k \in 1..Len(out[p])
    /\ out' = [out EXCEPT ![p] = SubSeq(@, k + 1, Len(@))]
    /\ Commit(stdoutListener(SubSeq(out[p], 1, k), Cur))
    /\ lastOp' = Op("data", p, k)
    /\ UNCHANGED <<capabilities, stdin, greeted, answered, enqueued, stopCalled, forcedStop, sent, wire, aligned, arrivals>>

\* The embedding application calls stop(force).
Stop(force) ==
    /\ Commit(stop(force, Cur))
    /\ stopCalled' = TRUE
    /\ forcedStop' = (forcedStop \/ (force /\ startPromise[1] = "resolved"))
    /\ lastOp' = [Op("stop", serverProcess, IF force THEN 1 ELSE 0) EXCEPT
                      !.rep = (lastOp.op = "stop" /\ lastOp.arg = IF force THEN 1 ELSE 0)]
    /\ UNCHANGED <<capabilities, stdin, greeted, answered, out, enqueued, sent, wire, aligned, arrivals>>

\* The child exits: its "exit" listeners run in the order they were added, the
\* one of spawnCommandServerProcess (remove the exit listeners) and then, when
\* attached, the one of attachListeners (log, stop(true), start again).
ProcessExit(p) ==
    /\ p <= spawned /\ alive[p]
    /\ "attach" \in exitListeners[p] => spawned < MaxProcs
    /\ LET snap == exitListeners[p]
           s1 == [Cur EXCEPT !.alive[p] = FALSE,
                             !.exitListeners[p] = IF "spawn" \in snap THEN {} ELSE @]
           s2 == IF "attach" \in snap THEN start(stop(TRUE, s1)) ELSE s1
       IN /\ Commit(s2)
          /\ lastOp' = Op("exit", p, IF "attach" \in snap THEN 1 ELSE 0)
    /\ UNCHANGED <<capabilities, stdin, greeted, answered, out, enqueued, stopCalled, forcedStop, sent, wire, aligned, arrivals>>

Next ==
    \/ Start
    \/ \E p \in Procs, h \in Hellos : ServerHello(p, h)
    \/ \E p \in Procs, k \in 1..(MaxCmds + 1) : FirstData(p, k)
    \/ \E p \in Procs : StderrData(p)
    \/ Enqueue
    \/ \E p \in Procs, code \in ExitCodes : ServerAnswer(p, code)
    \/ \E p \in Procs, k \in 1..MaxCmds : StdoutData(p, k)
    \/ \E force \in BOOLEAN : Stop(force)
    \/ \E p \in Procs : ProcessExit(p)

Spec == Init /\ [][Next]_vars

\* The command server and the pipe make progress: a live child writes its hello
\* and answers what it has read, and what is on a pipe with a listener arrives.
Fairness ==
    /\ WF_vars(\E p \in Procs, h \in Hellos : ServerHello(p, h))
    /\ WF_vars(\E p \in Procs, k \in 1..(MaxCmds + 1) : FirstData(p, k))
    /\ WF_vars(\E p \in Procs, code \in ExitCodes : ServerAnswer(p, code))
    /\ WF_vars(\E p \in Procs, k \in 1..MaxCmds : StdoutData(p, k))

FairSpec == Spec /\ Fairness

----------------------------------------------------------------------------
\* The stdout listener of attachListeners on bytes.  A Buffer is a sequence of
\* bytes, a string the sequence of its character codes, and a 32-bit word the
\* pair of its 16-bit halves.

MaxFrames == 2
MaxArrivals == 3

LINE_CHANNEL == 76
RESULT_CHANNEL == 114
OUTPUT_CHANNEL == 111
ERROR_CHANNEL == 101
DEBUG_TAG == 100
UNKNOWN_TAG == 120
REPLACEMENT_CHAR == 65533

Min(a, b) == IF a < b THEN a ELSE b

\* Buffer.readUInt8(offset).
readUInt8(data, offset) == data[offset + 1]

\* Buffer.readUInt32BE(offset): the four bytes as an unsigned word.
readUInt32BE(data, offset) ==
    [hi |-> data[offset + 1] * 256 + data[offset + 2],
     lo |-> data[offset + 3] * 256 + data[offset + 4]]

\* Buffer.readInt32BE(offset): the four bytes as a two's-complement word.
readInt32BE(data, offset) ==
    LET u == readUInt32BE(data, offset) IN
    [hi |-> IF u.hi >= 32768 THEN u.hi - 65536 ELSE u.hi, lo |-> u.lo]

\* The end of data.slice(offset, offset + length), clamped to the buffer; the
\* loop only compares the offset with data.length, so the offset past a body is
\* clamped the same way.
sliceEnd(data, offset, length) ==
    IF length.hi > 0 THEN Len(data) ELSE Min(offset + length.lo, Len(data))

\* data.slice(offset, offset + length).
slice(data, offset, length) == SubSeq(data, offset + 1, sliceEnd(data, offset, length))

\* Buffer.toString(encoding): a byte that is no character of the encoding
\* decodes to the replacement character.
toString(bytes) ==
    [i \in 1..Len(bytes) |-> IF bytes[i] < 128 THEN bytes[i] ELSE REPLACEMENT_CHAR]

\* bodies.join("").
RECURSIVE join(_)
join(bodies) == IF bodies = <<>> THEN <<>> ELSE Head(bodies) \o join(Tail(bodies))

\* What the command server writes: struct.pack(">cI", tag, length) and the body.
UInt32Bytes(n) ==
    LET hi == (n \div 65536) % 65536
        lo == n % 65536
    IN <<hi \div 256, hi % 256, lo \div 256, lo % 256>>

Frame(tag, length, body) == [tag |-> tag, length |-> length, body |-> body]

OutFrame == Frame(OUTPUT_CHANNEL, 1, <<97>>)
ErrFrame == Frame(ERROR_CHANNEL, 1, <<98>>)
DebugFrame == Frame(DEBUG_TAG, 1, <<99>>)
UnknownFrame == Frame(UNKNOWN_TAG, 1, <<99>>)
LineFrame == Frame(LINE_CHANNEL, 4, <<>>)
ResultFrame(code) == Frame(RESULT_CHANNEL, 4, UInt32Bytes(code))

WireExitCodes == {0, -1}

Frames ==
    {OutFrame, ErrFrame, DebugFrame, UnknownFrame, LineFrame}
        \cup {ResultFrame(code) : code \in WireExitCodes}

FrameSeqs == UNION {[1..n -> Frames] : n \in 0..MaxFrames}

EncodeFrame(f) == <<f.tag>> \o UInt32Bytes(f.length) \o f.body

RECURSIVE Encode(_)
Encode(fs) == IF fs = <<>> THEN <<>> ELSE EncodeFrame(Head(fs)) \o Encode(Tail(fs))

\* The offsets in Encode(fs) at which a frame ends.
Boundaries(fs) == {Len(Encode(SubSeq(fs, 1, i))) : i \in 0..Len(fs)}

\* Lines 270-291: with exitCode set, the result is built from the accumulators,
\* the accumulators are reset, the head of the queue (when there is one) is
\* resolved, and with the flag set and the queue empty stop() is called and the
\* listener returns.
resolveResult(s, p, exitCode) ==
    LET res == [stdout |-> join(s.outputBodies[p]),
                stderr |-> join(s.errorBodies[p]),
                exitCode |-> exitCode]
        q == s.commandQueue
        s1 == dequeueCommand([s EXCEPT !.outputBodies[p] = <<>>,
                                       !.errorBodies[p] = <<>>])
        s2 == IF q = <<>> THEN s1
              ELSE [s1 EXCEPT !.result[Head(q)] =
                                  [st |-> "resolved", exitCode |-> exitCode, src |-> 0],
                              !.resolved = Append(@, Head(q)),
                              !.delivered = Append(@, [cmd |-> Head(q)] @@ res)]
    IN IF s2.stopWhenQueueEmpty /\ Len(s2.commandQueue) = 0
       THEN [s |-> stop(FALSE, s2), returned |-> TRUE]
       ELSE [s |-> s2, returned |-> FALSE]

\* A listener that decodes the frame at the offset and leaves the rest of the
\* buffer: an if where the code has a while.
whileLoop_FirstFrameOnly(data, offset, s, p) ==
    IF ~(offset < Len(data)) THEN s
    ELSE IF offset + 5 > Len(data) THEN s
    ELSE LET chan == readUInt8(data, offset)
             length == readUInt32BE(data, offset + 1)
             off == offset + 5
         IN IF chan = RESULT_CHANNEL
            THEN IF off + 4 > Len(data) THEN s
                 ELSE resolveResult(s, p, readUInt32BE(data, off)).s
            ELSE IF chan = LINE_CHANNEL
            THEN [s EXCEPT !.suspended =
                               Append(@, [data |-> data, offset |-> off, proc |-> p])]
            ELSE LET body == toString(slice(data, off, length))
                 IN IF chan = OUTPUT_CHANNEL
                    THEN [s EXCEPT !.outputBodies[p] = Append(@, body)]
                    ELSE IF chan = ERROR_CHANNEL
                    THEN [s EXCEPT !.errorBodies[p] = Append(@, body)]
                    ELSE s

\* The while loop of the stdout listener of process p from offset on.  A read
\* past the end of the buffer throws, which ends the listener with what it has
\* done so far; at an L frame the listener is suspended in its await.
RECURSIVE whileLoop(_, _, _, _)
whileLoop(data, offset, s, p) ==
    IF ~(offset < Len(data)) THEN s
    ELSE IF offset + 5 > Len(data) THEN s
    ELSE LET chan == readUInt8(data, offset)
             length == readUInt32BE(data, offset + 1)
             off == offset + 5
         IN IF chan = RESULT_CHANNEL
            THEN IF off + 4 > Len(data) THEN s
                 ELSE LET r == resolveResult(s, p, readUInt32BE(data, off)) IN
                      IF r.returned THEN r.s
                      ELSE whileLoop(data, sliceEnd(data, off, length), r.s, p)
            ELSE IF chan = LINE_CHANNEL
            THEN [s EXCEPT !.suspended =
                               Append(@, [data |-> data, offset |-> off, proc |-> p])]
            ELSE LET body == toString(slice(data, off, length))
                     s1 == IF chan = OUTPUT_CHANNEL
                           THEN [s EXCEPT !.outputBodies[p] = Append(@, body)]
                           ELSE IF chan = ERROR_CHANNEL
                           THEN [s EXCEPT !.errorBodies[p] = Append(@, body)]
                           ELSE s
                 IN whileLoop(data, sliceEnd(data, off, length), s1, p)

\* The listener after its await: serverSendLineInput on the process captured by
\* attachListeners, then the rest of the loop.
afterAwait(s, i) ==
    LET h == s.suspended[i]
        s1 == [s EXCEPT !.suspended = SubSeq(@, 1, i - 1) \o SubSeq(@, i + 1, Len(@)),
                        !.lineWrites = Append(@, [proc |-> h.proc,
                                                  open |-> s.stdinOpen[h.proc]])]
    IN whileLoop(h.data, h.offset, s1, h.proc)

\* The server once process 1 has greeted, start has attached the listeners and
\* n commands have been written to it; with `deferred`, stop() has then been
\* called and has set the flag.
Started(n, deferred) ==
    /\ serverProcess = 1
    /\ starting = FALSE
    /\ capabilities = HelloOk.caps
    /\ commandQueue = [i \in 1..n |-> i]
    /\ stopWhenQueueEmpty = deferred
    /\ spawned = 1
    /\ alive = [p \in Procs |-> p = 1]
    /\ exitListeners = [p \in Procs |-> IF p = 1 THEN {"spawn", "attach"} ELSE {}]
    /\ onceData = [p \in Procs |-> FALSE]
    /\ stdoutData = [p \in Procs |-> p = 1]
    /\ stderrData = [p \in Procs |-> IF p = 1 THEN {"spawn", "attach"} ELSE {}]
    /\ stdinOpen = [p \in Procs |-> p = 1]
    /\ stdin = [p \in Procs |-> IF p = 1 THEN [i \in 1..n |-> i] ELSE <<>>]
    /\ greeted = [p \in Procs |-> p = 1]
    /\ answered = [p \in Procs |-> 0]
    /\ out = [p \in Procs |-> <<>>]
    /\ startPromise = [p \in Procs |-> IF p = 1 THEN "resolved" ELSE "none"]
    /\ result = [c \in Cmds |-> IF c <= n THEN Pending ELSE NoResult]
    /\ enqueued = n
    /\ resolved = <<>>
    /\ stopCalled = deferred
    /\ forcedStop = FALSE
    /\ lastOp = IF deferred THEN Op("stop", 1, 0)
                ELSE IF n = 0 THEN Op("firstdata", 1, 2) ELSE Op("enqueue", 1, n)

\* A started server and a child about to write the frames fs.
DemuxInit ==
    \E n \in 0..MaxCmds, deferred \in BOOLEAN, fs \in FrameSeqs :
        /\ deferred => n > 0
        /\ Started(n, deferred)
        /\ sent = fs
        /\ wire = Encode(fs)
        /\ aligned = TRUE
        /\ arrivals = 0
        /\ outputBodies = [p \in Procs |-> <<>>]
        /\ errorBodies = [p \in Procs |-> <<>>]
        /\ suspended = <<>>
        /\ delivered = <<>>
        /\ lineWrites = <<>>

\* The bytes of `sent` that have arrived.
Arrived == Len(Encode(sent)) - Len(wire)

\* The stdout listener of attachListeners on an arrival of the first k bytes.
BytesArrive(p, k) ==
    /\ p = 1 /\ stdoutData[p] /\ k \in 1..Len(wire)
    /\ arrivals < MaxArrivals
    /\ wire' = SubSeq(wire, k + 1, Len(wire))
    /\ arrivals' = arrivals + 1
    /\ aligned' = (aligned /\ (Arrived + k) \in Boundaries(sent))
    /\ Commit(whileLoop(SubSeq(wire, 1, k), 0, Cur, p))
    /\ lastOp' = Op("bytes", p, 0)
    /\ UNCHANGED <<capabilities, stdin, greeted, answered, out, enqueued,
                   stopCalled, forcedStop, sent>>

\* The InteractionBridge answers the i-th waiting handleChoices.
BridgeAnswer(i) ==
    /\ i \in 1..Len(suspended)
    /\ Commit(afterAwait(Cur, i))
    /\ lastOp' = Op("bridge", suspended[i].proc, i)
    /\ UNCHANGED <<capabilities, stdin, greeted, answered, out, enqueued,
                   stopCalled, forcedStop, sent, wire, aligned, arrivals>>

MaxChunk == 9 * (MaxFrames + 1)

\* The listeners alone: what the child wrote arrives and the bridge answers.
DemuxNext ==
    \/ \E k \in 1..MaxChunk : BytesArrive(1, k)
    \/ \E i \in 1..(MaxFrames + 1) : BridgeAnswer(i)

DemuxSpec == DemuxInit /\ [][DemuxNext]_vars

\* The listeners with a stop or an exit of the child at any moment.
TeardownNext ==
    \/ DemuxNext
    \/ \E force \in BOOLEAN : Stop(force)
    \/ ProcessExit(1)

TeardownSpec == DemuxInit /\ [][TeardownNext]_vars

----------------------------------------------------------------------------
\* Properties of the command server.

\* What a step may leave alone: the object and every process as the server sees
\* them (handle, listeners, input streams, queue, flag, results).
ServerState ==
    <<serverProcess, starting, capabilities, commandQueue, stopWhenQueueEmpty,
      spawned, alive, exitListeners, onceData, stdoutData, stderrData,
      stdinOpen, stdin, startPromise, result, enqueued, resolved>>

\* C1: the futures resolve in the order the commands were enqueued, and each
\* resolved future carries the exit code of the result frame the command server
\* produced for that very command.
C1_FifoOwnResult ==
    /\ \A i, j \in 1..Len(resolved) : i < j => resolved[i] < resolved[j]
    /\ \A c \in Cmds : result[c].st = "resolved" => result[c].src = c

\* C2: when the exit handler has dealt with an unexpected exit, the queue is
\* empty and no command accepted before the crash is still unsettled.
C2_CrashRejectsPending ==
    (lastOp.op = "exit" /\ lastOp.arg = 1) =>
        /\ commandQueue = <<>>
        /\ \A c \in 1..enqueued : result[c].st # "pending"

\* C3: an enqueue made while no process handle is held is rejected, leaves the
\* queue unchanged and writes nothing to any input stream.
C3_EnqueueNotRunning ==
    [][(lastOp'.op = "enqueue" /\ serverProcess = 0) =>
          /\ lastOp'.arg = 0
          /\ commandQueue' = commandQueue
          /\ stdin' = stdin
          /\ result' = result
          /\ enqueued' = enqueued]_vars

\* C3 happens: an enqueue was rejected while a restart was in its handshake, with
\* commands of the crashed process still queued.
C3_Witness ==
    /\ lastOp.op = "enqueue" /\ lastOp.arg = 0
    /\ serverProcess = 0 /\ starting /\ spawned >= 2
    /\ commandQueue # <<>>

\* C4: after stop(true) no accepted command is left unsettled.
C4_ForcedStopSettles ==
    (lastOp.op = "stop" /\ lastOp.arg = 1) =>
        \A c \in 1..enqueued : result[c].st # "pending"

\* C5: stop(false) with commands queued changes nothing but the flag (handle,
\* listeners, input streams, queue and results stay as they were), and with a
\* process held it sets the flag.
C5_DeferredStopFrame ==
    [][(lastOp'.op = "stop" /\ lastOp'.arg = 0 /\ commandQueue # <<>>) =>
          /\ serverProcess' = serverProcess
          /\ commandQueue' = commandQueue
          /\ exitListeners' = exitListeners
          /\ onceData' = onceData
          /\ stdoutData' = stdoutData
          /\ stderrData' = stderrData
          /\ stdinOpen' = stdinOpen
          /\ stdin' = stdin
          /\ alive' = alive
          /\ result' = result
          /\ (serverProcess # 0 => stopWhenQueueEmpty')]_vars

\* C5 happens: after a deferred stop a result frame resolved a command and the
\* process is still held, the rest of the queue waiting.
C5_Witness ==
    /\ lastOp.op = "data"
    /\ stopWhenQueueEmpty /\ serverProcess # 0
    /\ commandQueue # <<>> /\ resolved # <<>>
    /\ stdoutData[serverProcess] /\ stdinOpen[serverProcess]

\* C6: with the flag set the handle is dropped only by the step that handles the
\* result frame emptying the queue (or by a forced stop or a crash), and while
\* the command server keeps answering, every deferred stop leads to Stopped.
C6_DeferredStopCompletes ==
    /\ [][(stopWhenQueueEmpty /\ serverProcess # 0 /\ serverProcess' = 0) =>
             \/ lastOp'.op = "data" /\ commandQueue' = <<>>
             \/ lastOp'.op = "stop" /\ lastOp'.arg = 1
             \/ lastOp'.op = "exit"]_vars
    /\ [](stopWhenQueueEmpty =>
             <>(serverProcess = 0 \/ ~alive[serverProcess]))

\* C7: a stop(force) directly after a stop(force) changes nothing, and neither
\* does a stop on a server that holds no process.
C7_StopIdempotent ==
    [][(lastOp'.op = "stop" /\ (lastOp'.rep \/ serverProcess = 0)) =>
          UNCHANGED ServerState]_vars

\* C7 happens: stop(false) was called twice in a row with commands queued.
C7_Witness ==
    /\ lastOp.op = "stop" /\ lastOp.arg = 0 /\ lastOp.rep
    /\ serverProcess # 0 /\ stopWhenQueueEmpty /\ commandQueue # <<>>

\* C8: whenever a process exits and the application has not called stop, the
\* old handle is torn down and start is called again.
C8_ExitRestarts ==
    [][(lastOp'.op = "exit" /\ ~stopCalled) =>
          /\ spawned' = spawned + 1
          /\ starting'
          /\ serverProcess' = 0
          /\ exitListeners'[lastOp'.proc] = {}
          /\ ~stdoutData'[lastOp'.proc]]_vars

\* C9: a process is written to only after its handshake has completed, an
\* enqueue made while a start is in its handshake is rejected, and no command
\* is written to two processes (nothing queued before a crash is sent again).
C9_NoWriteBeforeHandshake ==
    /\ [](\A p \in Procs : stdin[p] # <<>> => startPromise[p] = "resolved")
    /\ [](\A p, q \in Procs : \A i \in 1..Len(stdin[p]), j \in 1..Len(stdin[q]) :
             stdin[p][i] = stdin[q][j] => (p = q /\ i = j))
    /\ [][(lastOp'.op = "enqueue" /\ starting) => lastOp'.arg = 0]_vars

\* C9 happens: after a crash with a command queued, the restarted process has
\* completed its handshake and has been sent a new command.
C9_Witness ==
    \E p \in 2..MaxProcs :
        /\ serverProcess = p
        /\ stdin[p] # <<>>
        /\ Len(commandQueue) = 2
        /\ stdin[p][1] = commandQueue[2]

\* C10: once a handshake has parsed capabilities without "runcommand", the start
\* has failed, no handle is stored, no listener of attachListeners is on any
\* process, and every enqueue is rejected.
C10_NoRuncommand ==
    /\ []((capabilities # {} /\ "runcommand" \notin capabilities) =>
             /\ serverProcess = 0
             /\ startPromise[spawned] = "rejected"
             /\ \A p \in Procs : ~stdoutData[p] /\ "attach" \notin exitListeners[p])
    /\ [][(lastOp'.op = "enqueue" /\ capabilities # {}
           /\ "runcommand" \notin capabilities) => lastOp'.arg = 0]_vars

\* C10 happens: a restarted process answered without "runcommand" and a later
\* enqueue was rejected.
C10_Witness ==
    /\ capabilities = {"getencoding"}
    /\ lastOp.op = "enqueue" /\ lastOp.arg = 0
    /\ spawned >= 2

\* C11: when the first burst does not parse as capabilities and encoding (a body
\* that does not match, or a frame on the result channel), the promise of start
\* is eventually rejected.
C11_BadHandshakeRejects ==
    \A p \in Procs :
        []((lastOp.op = "firstdata" /\ lastOp.proc = p /\ lastOp.arg = 0) =>
               <>(startPromise[p] = "rejected"))

\* C13: once stop(true) has been called on the server handle, the server never
\* holds a process again.
C13_ForcedStopEndsCycle ==
    forcedStop => serverProcess = 0

\* C19: a resolved command was written to the process that emitted the result
\* frame resolving it, and every queued command has been written to the process
\* the server now holds.
C19_SameProcessResolves ==
    /\ \A c \in Cmds : result[c].st = "resolved" =>
           \E p \in Procs : \E i, j \in 1..Len(stdin[p]) :
               stdin[p][i] = c /\ stdin[p][j] = result[c].src
    /\ serverProcess # 0 =>
           \A i \in 1..Len(commandQueue) :
               \E j \in 1..Len(stdin[serverProcess]) :
                   stdin[serverProcess][j] = commandQueue[i]

\* C18: the exit code delivered to a command is the body of a result frame the
\* child wrote, read as a big-endian two's-complement 32-bit integer.
C18_SignedExitCode ==
    aligned =>
        \A i \in 1..Len(delivered) :
            \E j \in 1..Len(sent) :
                /\ sent[j].tag = RESULT_CHANNEL
                /\ delivered[i].exitCode = readInt32BE(sent[j].body, 0)

\* What an observer of the dispatch sees: the text appended and not yet
\* delivered, the commands resolved and their results.
Dispatch(s) ==
    [output |-> join(s.outputBodies[1]), error |-> join(s.errorBodies[1]),
     resolved |-> s.resolved, delivered |-> s.delivered]

\* The bridge answers every waiting request, oldest first.
RECURSIVE drain(_)
drain(s) == IF s.suspended = <<>> THEN s ELSE drain(afterAwait(s, 1))

\* The dispatch of the bytes of `sent` delivered in a single arrival to the
\* started server.
SingleArrival ==
    LET s0 == [Cur EXCEPT !.commandQueue = [i \in 1..enqueued |-> i],
                          !.result = [c \in Cmds |-> IF c <= enqueued THEN Pending
                                                     ELSE NoResult],
                          !.resolved = <<>>,
                          !.outputBodies = [p \in Procs |-> <<>>],
                          !.errorBodies = [p \in Procs |-> <<>>],
                          !.suspended = <<>>,
                          !.delivered = <<>>,
                          !.lineWrites = <<>>]
    IN Dispatch(drain(whileLoop(Encode(sent), 0, s0, 1)))

\* C14: once all the bytes of a frame sequence have arrived, in however many
\* arrivals and wherever they were cut, and every line request has been
\* answered, the dispatch is the one of a single arrival of the same bytes.
C14_SplitSameDispatch ==
    (wire = <<>> /\ suspended = <<>> /\ ~stopCalled /\ alive[1]) =>
        Dispatch(Cur) = SingleArrival

\* C16: while a listener waits for the bridge no arrival is decoded, and there
\* is never more than one listener in the middle of a buffer.
C16_NoDecodeWhileSuspended ==
    [][/\ lastOp'.op = "bytes" => suspended = <<>>
       /\ Len(suspended') <= 1]_vars

\* C20: every line-input response is written to an input stream that is open.
C20_NoWriteAfterEnd ==
    \A i \in 1..Len(lineWrites) : lineWrites[i].open

\* The index in `sent` of the frame that starts at byte offset n (0 when no
\* frame starts there).
FrameAt(n) ==
    IF \E j \in 1..Len(sent) : Len(Encode(SubSeq(sent, 1, j - 1))) = n
    THEN CHOOSE j \in 1..Len(sent) : Len(Encode(SubSeq(sent, 1, j - 1))) = n
    ELSE 0

\* C17: when an arrival starts with a frame whose tag is none of o, e, r, d, L
\* while a command is open, the future of that command is rejected.
C17_UnknownTagRejects ==
    [][(/\ lastOp'.op = "bytes"
        /\ aligned /\ aligned'
        /\ FrameAt(Arrived) # 0
        /\ sent[FrameAt(Arrived)].tag = UNKNOWN_TAG
        /\ commandQueue # <<>>)
           => result'[Head(commandQueue)].st = "rejected"]_vars

\* The result the frames of `sent` define for the result frame at index j:
\* the o bodies and the e bodies since the result frame before it, in order,
\* and the body of the frame itself.
SpanStart(j) ==
    LET before == {i \in 1..(j - 1) : sent[i].tag = RESULT_CHANNEL}
    IN IF before = {} THEN 1 ELSE 1 + CHOOSE i \in before : \A k \in before : k <= i

RECURSIVE bodiesOf(_, _, _)
bodiesOf(tag, from, to) ==
    IF from > to THEN <<>>
    ELSE (IF sent[from].tag = tag THEN sent[from].body ELSE <<>>)
             \o bodiesOf(tag, from + 1, to)

Expected(j) ==
    [stdout |-> bodiesOf(OUTPUT_CHANNEL, SpanStart(j), j - 1),
     stderr |-> bodiesOf(ERROR_CHANNEL, SpanStart(j), j - 1),
     exitCode |-> readUInt32BE(sent[j].body, 0)]

\* C12: every result delivered to a command is the one a result frame of the
\* child defines: stdout the o bodies and stderr the e bodies received since
\* the result frame before it, exitCode the body of the frame; d frames and
\* bodies from before the previous result frame are in neither.
C12_ResultFromSpan ==
    \A i \in 1..Len(delivered) :
        \E j \in 1..Len(sent) :
            /\ sent[j].tag = RESULT_CHANNEL
            /\ [stdout |-> delivered[i].stdout, stderr |-> delivered[i].stderr,
                exitCode |-> delivered[i].exitCode] = Expected(j)

\* The number of frames of `sent` that end at or before byte offset n.
EndIndex(n) ==
    CHOOSE j \in 0..Len(sent) :
        /\ Len(Encode(SubSeq(sent, 1, j))) <= n
        /\ \A k \in 0..Len(sent) : Len(Encode(SubSeq(sent, 1, k))) <= n => k <= j

\* The dispatch of complete frames one after the other, in the order given:
\* o and e bodies are appended as text, a result frame resolves the head of the
\* queue, any other frame changes nothing.
RECURSIVE dispatchFrames(_, _, _)
dispatchFrames(fs, s, p) ==
    IF fs = <<>> THEN s
    ELSE LET f == Head(fs) IN
         IF f.tag = RESULT_CHANNEL
         THEN LET r == resolveResult(s, p, readUInt32BE(f.body, 0)) IN
              IF r.returned THEN r.s ELSE dispatchFrames(Tail(fs), r.s, p)
         ELSE IF f.tag = OUTPUT_CHANNEL
         THEN dispatchFrames(Tail(fs),
                             [s EXCEPT !.outputBodies[p] = Append(@, toString(f.body))], p)
         ELSE IF f.tag = ERROR_CHANNEL
         THEN dispatchFrames(Tail(fs),
                             [s EXCEPT !.errorBodies[p] = Append(@, toString(f.body))], p)
         ELSE dispatchFrames(Tail(fs), s, p)

\* C15: an arrival that holds complete frames (none of them a line request)
\* dispatches each of them, in buffer order; the result frames in it resolve
\* as many pending commands, in queue order, within that arrival.
C15_BatchDispatch ==
    [][LET fs == SubSeq(sent, EndIndex(Arrived) + 1, EndIndex(Arrived'))
           rs == Cardinality({i \in 1..Len(fs) : fs[i].tag = RESULT_CHANNEL})
           m == Min(rs, Len(commandQueue))
       IN (/\ lastOp'.op = "bytes"
           /\ aligned /\ aligned'
           /\ \A i \in 1..Len(fs) : fs[i].tag # LINE_CHANNEL)
              => /\ Cur' = dispatchFrames(fs, Cur, 1)
                 /\ resolved' = resolved \o SubSeq(commandQueue, 1, m)
                 /\ commandQueue' = SubSeq(commandQueue, m + 1, Len(commandQueue))
                 /\ Len(delivered') = Len(delivered) + m]_vars

C15_Witness ==
    /\ lastOp.op = "bytes" /\ arrivals = 1 /\ aligned
    /\ Len(sent) = 2 /\ wire = <<>>
    /\ resolved = <<1, 2>>
    /\ Len(delivered) = 2


============================================================================
